---- MODULE Spec2Model ----
(***************************************************************************)
(* MapWidget (src/src/ui/MapWidget.cpp): the view transform of a tactical  *)
(* map display.  The widget's doubles are modelled in fixed point:         *)
(*   zoom        in 1/ZoomUnit zoom levels   (milli-levels)                *)
(*   ranges, m   in 1/MetreUnit metres       (millimetres)                 *)
(*   lat, lon    in 1/DegUnit degrees        (micro-degrees)               *)
(*   screen x,y  in 1/PixelUnit pixels       (milli-pixels)                *)
(*   pure reals  in 1/One                                                  *)
(* pow, log2 and cos of <cmath> are computed by their series, each product *)
(* rounded to the nearest unit as a floating-point product is rounded.     *)
(***************************************************************************)
EXTENDS Integers, Sequences, FiniteSets, TLC

\* ------------------------------------------------------------------ units
One == 1000000
ZoomUnit == 1000
MetreUnit == 1000
DegUnit == 1000000
PixelUnit == 1000

\* ------------------------------------------------- rounded real arithmetic
Abs(x) == IF x < 0 THEN -x ELSE x
Sgn(x) == IF x < 0 THEN -1 ELSE 1

\* The digit size the long multiplication below works in: the largest radix
\* for which no intermediate value leaves the 32-bit integers (c <= 2^29).
Radix(c) == 1073741824 \div c

\* <<q, r>> with a*b = q*c + r and 0 <= r < c, for 0 <= a < c and b >= 0,
\* digit by digit of b.
RECURSIVE MulQR(_, _, _, _)
MulQRStep(h, add, c, radix) ==
    <<radix * h[1] + (radix * h[2] + add) \div c, (radix * h[2] + add) % c>>
MulQR(a, b, c, radix) ==
    IF b = 0 THEN <<0, 0>>
    ELSE MulQRStep(MulQR(a, b \div radix, c, radix), a * (b % radix), c, radix)

MulDivNat(a, b, c) ==
    LET qr == MulQR(a % c, b, c, Radix(c))
    IN (a \div c) * b + qr[1] + (IF 2 * qr[2] >= c THEN 1 ELSE 0)

\* a*b/c rounded to the nearest integer (c > 0)
MulDiv(a, b, c) == Sgn(a) * Sgn(b) * MulDivNat(Abs(a), Abs(b), c)

\* the product and the quotient of two reals held in 1/One
RMul(x, y) == MulDiv(x, y, One)
RDiv(x, y) == Sgn(y) * MulDiv(x, One, Abs(y))

\* ------------------------------------------------------------- <cmath>
Ln2 == 693147
Pi == 3141593
SeriesTerms == 14

\* a/k rounded to the nearest integer (k > 0)
DivR(a, k) == Sgn(a) * ((2 * Abs(a) + k) \div (2 * k))

\* exp(y) = sum y^n / n!, for 0 <= y < 1
RECURSIVE ExpSeries(_, _, _)
ExpSeries(y, term, n) ==
    IF n > SeriesTerms \/ term = 0 THEN 0
    ELSE term + ExpSeries(y, DivR(RMul(term, y), n), n + 1)

RECURSIVE Pow2Int(_)
Pow2Int(n) == IF n = 0 THEN 1 ELSE 2 * Pow2Int(n - 1)

\* floor of x / One, also for negative x
RFloor(x) == IF x >= 0 THEN x \div One ELSE -((-x + One - 1) \div One)

\* pow(2.0, x) as a floating-point value <<m, q>> = m/One * 2^q, 1 <= m/One < 2:
\* 2^x = exp(frac(x) * ln 2) * 2^floor(x)
Pow2(x) == <<ExpSeries(RMul(x - RFloor(x) * One, Ln2), One, 1), RFloor(x)>>

\* a / p for a floating-point p = <<m, q>>
DivByFloat(a, p) ==
    IF p[2] >= 0 THEN DivR(MulDiv(a, One, p[1]), Pow2Int(p[2]))
    ELSE MulDiv(a, One, p[1]) * Pow2Int(-p[2])

\* ln(m) = 2 * atanh((m-1)/(m+1)) = 2 * sum t^(2k+1)/(2k+1), for 1 <= m < 2
RECURSIVE AtanhSeries(_, _, _)
AtanhSeries(t2, pw, k) ==
    IF k > SeriesTerms \/ pw = 0 THEN 0
    ELSE DivR(pw, 2 * k + 1) + AtanhSeries(t2, RMul(pw, t2), k + 1)

LnMantissa(m) ==
    LET t == RDiv(m - One, m + One)
    IN 2 * AtanhSeries(RMul(t, t), t, 0)

\* the binary exponent of a/b: the q with 2^q <= a/b < 2^(q+1)  (a, b > 0)
RECURSIVE Ilog2(_, _)
Ilog2(a, b) ==
    IF a >= 2 * b THEN 1 + Ilog2(a, 2 * b)
    ELSE IF a < b THEN Ilog2(2 * a, b) - 1
    ELSE 0

\* log2(a / b): the exponent of the quotient plus log2 of its mantissa
Log2Quot(a, b) ==
    LET q == Ilog2(a, b)
        m == IF q >= 0 THEN MulDiv(a, One, b * Pow2Int(q))
             ELSE MulDiv(a * Pow2Int(-q), One, b)
    IN q * One + RDiv(LnMantissa(m), Ln2)

\* cos(x) = sum (-1)^n x^(2n) / (2n)!
RECURSIVE CosSeries(_, _, _)
CosSeries(x2, term, n) ==
    IF n > SeriesTerms \/ term = 0 THEN 0
    ELSE term + CosSeries(x2, -DivR(RMul(term, x2), (2 * n + 1) * (2 * n + 2)), n + 1)

Cos(x) == CosSeries(RMul(x, x), One, 0)

\* ------------------------------------------------------------- <QtGlobal>
qMin(a, b) == IF a < b THEN a ELSE b
qMax(a, b) == IF a < b THEN b ELSE a
\* qBound without its upper bound
qBoundNoUpper(lo, v, hi) == qMax(lo, v)
qBound(lo, v, hi) == qMax(lo, qMin(hi, v))

\* ------------------------------------------------- zoom <-> range scale
\* zoomToRangeScale without the final qBound
zoomToRangeScaleUnbound(zoom) ==
    DivByFloat(50000 * MetreUnit, Pow2(MulDiv(zoom - 1 * ZoomUnit, 2 * One, 5 * ZoomUnit)))

\* rangeScale = 50000.0 / pow(2.0, (zoom - 1.0) / 2.5), bound to [100, 50000]
zoomToRangeScale(zoom) ==
    LET exponent == MulDiv(zoom - 1 * ZoomUnit, 2 * One, 5 * ZoomUnit)
        rangeScale == DivByFloat(50000 * MetreUnit, Pow2(exponent))
    IN qBound(100 * MetreUnit, rangeScale, 50000 * MetreUnit)

\* zoom = 1.0 + log2(50000.0 / rangeM) * 2.5, bound to [1, 20]
rangeScaleToZoom(rangeM) ==
    LET zoom == 1 * ZoomUnit + MulDiv(Log2Quot(50000 * MetreUnit, rangeM), 5 * ZoomUnit, 2 * One)
    IN qBound(1 * ZoomUnit, zoom, 20 * ZoomUnit)

\* --------------------------------------------------------- CoordinateUtils
\* metres per degree of latitude
DEG_TO_M_LAT == 111320
\* the smallest cosine the longitude scale is computed with
MinCos == One \div 1000

Radians(deg) == MulDiv(deg, Pi, 180 * DegUnit)

\* millimetres per degree of longitude at a latitude
degToMeterLon(lat) ==
    MulDiv(DEG_TO_M_LAT * MetreUnit, qMax(MinCos, Cos(Radians(lat))), One)

\* the offset of pos from ref, east and north, in millimetres
geoToLocal(pos, ref) ==
    [x |-> MulDiv(pos.lon - ref.lon, degToMeterLon(ref.lat), DegUnit),
     y |-> MulDiv(pos.lat - ref.lat, DEG_TO_M_LAT * MetreUnit, DegUnit)]

localToGeo(local, ref) ==
    [lat |-> ref.lat + MulDiv(local.y, DegUnit, DEG_TO_M_LAT * MetreUnit),
     lon |-> ref.lon + MulDiv(local.x, DegUnit, degToMeterLon(ref.lat))]

\* ------------------------------------------------------------- the widget
Width == 400
Height == 300
Margin == 20
DefaultLat == 34052200
DefaultLon == -118243700
DefaultZoom == 15 * ZoomUnit

\* bounds of the exploration
MaxPans == 1

\* inputs
Positions == {[lat |-> 89900000, lon |-> 179900000]}
ZoomArgs == {500, 15000, 25000}
WheelAngles == {-4560, 4560}
PointerPositions == {<<100, 100>>, <<300, 250>>}
PanDeltas == {<<200, 0>>}
TrackIds == {"T1"}
RegistryIds == {"T1", "T2", "T3", "T4"}
Buttons == {"Left", "Right"}

VARIABLES m_center, m_zoom, m_viewRangeM, m_selectedTrackId, m_tracks,
          m_panEnabled, m_panning, m_lastPanPos,
          cursor, emitted, lastOp, nPans, probe

view == <<m_center, m_zoom, m_viewRangeM>>
tracks == <<m_selectedTrackId, m_tracks>>
gesture == <<m_panEnabled, m_panning, m_lastPanPos>>
vars == <<m_center, m_zoom, m_viewRangeM, m_selectedTrackId, m_tracks,
          m_panEnabled, m_panning, m_lastPanPos, cursor, emitted, lastOp, nPans, probe>>

centerChanged(pos) == [sig |-> "centerChanged", pos |-> pos]
zoomChanged(zoom) == [sig |-> "zoomChanged", zoom |-> zoom]
mapClicked(pos) == [sig |-> "mapClicked", pos |-> pos]

ValidGeo(pos) == Abs(pos.lat) <= 90 * DegUnit /\ Abs(pos.lon) <= 180 * DegUnit

Init ==
    /\ m_center = [lat |-> DefaultLat, lon |-> DefaultLon]
    /\ m_zoom = DefaultZoom
    /\ m_viewRangeM = zoomToRangeScale(DefaultZoom)
    /\ m_selectedTrackId = ""
    /\ m_tracks = {}
    /\ m_panEnabled = TRUE
    /\ m_panning = FALSE
    /\ m_lastPanPos = <<0, 0>>
    /\ cursor \in PointerPositions
    /\ emitted = <<>>
    /\ lastOp = [name |-> "MapWidget"]
    /\ nPans = 0
    /\ probe = [kind |-> "none"]

setCenter(pos) ==
    /\ m_center' = pos
    /\ emitted' = <<centerChanged(m_center')>>
    /\ lastOp' = [name |-> "setCenter", pos |-> pos]
    /\ UNCHANGED <<m_zoom, m_viewRangeM, tracks, gesture, cursor, nPans, probe>>

\* setCenterSilent emitting as setCenter does
setCenterSilentLoud(pos) ==
    /\ m_center' = pos
    /\ emitted' = <<centerChanged(m_center')>>
    /\ lastOp' = [name |-> "setCenterSilent", pos |-> pos]
    /\ UNCHANGED <<m_zoom, m_viewRangeM, tracks, gesture, cursor, nPans, probe>>

setCenterSilent(pos) ==
    /\ m_center' = pos
    /\ emitted' = <<>>
    /\ lastOp' = [name |-> "setCenterSilent", pos |-> pos]
    /\ UNCHANGED <<m_zoom, m_viewRangeM, tracks, gesture, cursor, nPans, probe>>

setZoom(zoom) ==
    /\ m_zoom' = qBound(1 * ZoomUnit, zoom, 20 * ZoomUnit)
    /\ m_viewRangeM' = zoomToRangeScale(m_zoom')
    /\ emitted' = <<zoomChanged(m_zoom')>>
    /\ lastOp' = [name |-> "setZoom", zoom |-> zoom]
    /\ UNCHANGED <<m_center, tracks, gesture, cursor, nPans, probe>>

\* setZoomSilent leaving the view range as it was
setZoomSilentStale(zoom) ==
    /\ m_zoom' = qBound(1 * ZoomUnit, zoom, 20 * ZoomUnit)
    /\ emitted' = <<>>
    /\ lastOp' = [name |-> "setZoomSilent", zoom |-> zoom]
    /\ UNCHANGED <<m_center, m_viewRangeM, tracks, gesture, cursor, nPans, probe>>

setZoomSilent(zoom) ==
    /\ m_zoom' = qBound(1 * ZoomUnit, zoom, 20 * ZoomUnit)
    /\ m_viewRangeM' = zoomToRangeScale(m_zoom')
    /\ emitted' = <<>>
    /\ lastOp' = [name |-> "setZoomSilent", zoom |-> zoom]
    /\ UNCHANGED <<m_center, tracks, gesture, cursor, nPans, probe>>

\* delta = angleDelta().y() / 120.0;  setZoom(m_zoom + delta * 0.5)
wheelEvent(angleDeltaY) ==
    /\ m_zoom' = qBound(1 * ZoomUnit, m_zoom + MulDiv(angleDeltaY, ZoomUnit, 240), 20 * ZoomUnit)
    /\ m_viewRangeM' = zoomToRangeScale(m_zoom')
    /\ emitted' = <<zoomChanged(m_zoom')>>
    /\ lastOp' = [name |-> "wheelEvent", angleDeltaY |-> angleDeltaY, was |-> m_zoom]
    /\ UNCHANGED <<m_center, tracks, gesture, cursor, nPans, probe>>

\* qMin(width(), height()) / 2.0 - 20, in 1/PixelUnit pixels
mapRadius == (qMin(Width, Height) * PixelUnit) \div 2 - Margin * PixelUnit

\* the center pan(delta) leaves: x / scale is x * viewRange / mapRadius
PanCenter(center, viewRangeM, delta) ==
    LET distanceX == MulDiv(viewRangeM, -delta[1] * PixelUnit, mapRadius)
        distanceY == MulDiv(viewRangeM, delta[2] * PixelUnit, mapRadius)
        dLat == MulDiv(distanceY, DegUnit, DEG_TO_M_LAT * MetreUnit)
        dLon == MulDiv(distanceX, DegUnit, degToMeterLon(center.lat))
    IN [lat |-> center.lat + dLat, lon |-> center.lon + dLon]

\* the exploration pans from valid centers only, and MaxPans times
CanPan == nPans < MaxPans /\ ValidGeo(m_center)

pan(delta) ==
    /\ CanPan
    /\ m_center' = PanCenter(m_center, m_viewRangeM, delta)
    /\ emitted' = <<centerChanged(m_center')>>
    /\ lastOp' = [name |-> "pan", delta |-> delta]
    /\ nPans' = nPans + 1
    /\ UNCHANGED <<m_zoom, m_viewRangeM, tracks, gesture, cursor, probe>>

selectTrack(trackId) ==
    /\ m_selectedTrackId' = trackId
    /\ emitted' = <<>>
    /\ lastOp' = [name |-> "selectTrack", trackId |-> trackId]
    /\ UNCHANGED <<view, m_tracks, gesture, cursor, nPans, probe>>

addTrack(trackId) ==
    /\ emitted' = <<>>
    /\ lastOp' = [name |-> "addTrack", trackId |-> trackId]
    /\ UNCHANGED <<view, tracks, gesture, cursor, nPans, probe>>

updateTrack(trackId) ==
    /\ emitted' = <<>>
    /\ lastOp' = [name |-> "updateTrack", trackId |-> trackId]
    /\ UNCHANGED <<view, tracks, gesture, cursor, nPans, probe>>

\* removeTrack leaving the selection as it was
removeTrackKeepSelection(trackId) ==
    /\ m_tracks' = m_tracks \ {trackId}
    /\ emitted' = <<>>
    /\ lastOp' = [name |-> "removeTrack", trackId |-> trackId, was |-> m_selectedTrackId]
    /\ UNCHANGED <<view, m_selectedTrackId, gesture, cursor, nPans, probe>>

removeTrack(trackId) ==
    /\ m_tracks' = m_tracks \ {trackId}
    /\ m_selectedTrackId' = IF m_selectedTrackId = trackId THEN "" ELSE m_selectedTrackId
    /\ emitted' = <<>>
    /\ lastOp' = [name |-> "removeTrack", trackId |-> trackId, was |-> m_selectedTrackId]
    /\ UNCHANGED <<view, gesture, cursor, nPans, probe>>

clearTracks ==
    /\ m_tracks' = {}
    /\ m_selectedTrackId' = ""
    /\ emitted' = <<>>
    /\ lastOp' = [name |-> "clearTracks"]
    /\ UNCHANGED <<view, gesture, cursor, nPans, probe>>

setPanEnabled(enabled) ==
    /\ m_panEnabled' = enabled
    /\ emitted' = <<>>
    /\ lastOp' = [name |-> "setPanEnabled", enabled |-> enabled]
    /\ UNCHANGED <<view, tracks, m_panning, m_lastPanPos, cursor, nPans, probe>>

\* the position in 1/PixelUnit pixels a geographic position is drawn at
geoToScreen(pos, center, viewRangeM) ==
    LET localMeters == geoToLocal(pos, center)
        dx == MulDiv(localMeters.x, mapRadius, viewRangeM)
        dy == -MulDiv(localMeters.y, mapRadius, viewRangeM)
    IN <<(Width * PixelUnit) \div 2 + dx, (Height * PixelUnit) \div 2 + dy>>

\* the geographic position at a pixel
screenToGeo(screen, center, viewRangeM) ==
    LET localX == MulDiv(viewRangeM, screen[1] * PixelUnit - (Width * PixelUnit) \div 2, mapRadius)
        localY == -MulDiv(viewRangeM, screen[2] * PixelUnit - (Height * PixelUnit) \div 2, mapRadius)
    IN localToGeo([x |-> localX, y |-> localY], center)

\* mousePressEvent not recording where the drag starts
mousePressEventNoPos(button) ==
    /\ IF button = "Left" /\ m_panEnabled
       THEN /\ m_panning' = TRUE
            /\ emitted' = <<>>
       ELSE /\ UNCHANGED m_panning
            /\ emitted' = IF button = "Right"
                          THEN <<mapClicked(screenToGeo(cursor, m_center, m_viewRangeM))>>
                          ELSE <<>>
    /\ lastOp' = [name |-> "mousePressEvent", button |-> button, pos |-> cursor]
    /\ UNCHANGED <<view, tracks, m_panEnabled, m_lastPanPos, cursor, nPans, probe>>

\* a button goes down at the pointer's position
mousePressEvent(button) ==
    /\ IF button = "Left" /\ m_panEnabled
       THEN /\ m_panning' = TRUE
            /\ m_lastPanPos' = cursor
            /\ emitted' = <<>>
       ELSE /\ UNCHANGED <<m_panning, m_lastPanPos>>
            /\ emitted' = IF button = "Right"
                          THEN <<mapClicked(screenToGeo(cursor, m_center, m_viewRangeM))>>
                          ELSE <<>>
    /\ lastOp' = [name |-> "mousePressEvent", button |-> button, pos |-> cursor]
    /\ UNCHANGED <<view, tracks, m_panEnabled, cursor, nPans, probe>>

\* the pointer moves to pos
mouseMoveEvent(pos) ==
    /\ pos # cursor
    /\ cursor' = pos
    /\ IF m_panning
       THEN /\ CanPan
            /\ m_lastPanPos' = pos
            /\ m_center' = PanCenter(m_center, m_viewRangeM,
                                     <<pos[1] - m_lastPanPos[1], pos[2] - m_lastPanPos[2]>>)
            /\ emitted' = <<centerChanged(m_center')>>
            /\ nPans' = nPans + 1
       ELSE /\ UNCHANGED <<m_lastPanPos, m_center, nPans>>
            /\ emitted' = <<>>
    /\ lastOp' = [name |-> "mouseMoveEvent", pos |-> pos, from |-> cursor]
    /\ UNCHANGED <<m_zoom, m_viewRangeM, tracks, m_panEnabled, m_panning, probe>>

mouseReleaseEvent(button) ==
    /\ m_panning' = IF m_panning /\ button = "Left" THEN FALSE ELSE m_panning
    /\ emitted' = <<>>
    /\ lastOp' = [name |-> "mouseReleaseEvent", button |-> button, pos |-> cursor]
    /\ UNCHANGED <<view, tracks, m_panEnabled, m_lastPanPos, cursor, nPans, probe>>

Next ==
    \/ \E pos \in Positions : setCenter(pos)
    \/ \E pos \in Positions : setCenterSilent(pos)
    \/ \E zoom \in ZoomArgs : setZoom(zoom)
    \/ \E zoom \in ZoomArgs : setZoomSilent(zoom)
    \/ \E a \in WheelAngles : wheelEvent(a)
    \/ \E delta \in PanDeltas : pan(delta)
    \/ \E id \in TrackIds : selectTrack(id)
    \/ \E id \in TrackIds : addTrack(id)
    \/ \E id \in TrackIds : updateTrack(id)
    \/ \E id \in TrackIds : removeTrack(id)
    \/ clearTracks
    \/ \E enabled \in BOOLEAN : setPanEnabled(enabled)
    \/ \E button \in Buttons : mousePressEvent(button)
    \/ \E pos \in PointerPositions : mouseMoveEvent(pos)
    \/ \E button \in Buttons : mouseReleaseEvent(button)

Spec == Init /\ [][Next]_vars
\* --------------------------------------------------- the track registry alone
NextTracks ==
    \/ \E id \in RegistryIds : selectTrack(id)
    \/ \E id \in RegistryIds : addTrack(id)
    \/ \E id \in RegistryIds : updateTrack(id)
    \/ \E id \in RegistryIds : removeTrack(id)
    \/ clearTracks

SpecTracks == Init /\ [][NextTracks]_vars

\* ------------------------------------------- the conversions as functions
ZoomProbes == {250 * k : k \in -16..120}
ZoomSteps == {1, 250, 5000}
RangeProbes == {100000 + 499000 * k : k \in 0..100} \cup {257000, 258000}

InitConv ==
    /\ m_center = [lat |-> DefaultLat, lon |-> DefaultLon]
    /\ m_zoom = DefaultZoom
    /\ m_viewRangeM = zoomToRangeScale(DefaultZoom)
    /\ m_selectedTrackId = ""
    /\ m_tracks = {}
    /\ m_panEnabled = TRUE
    /\ m_panning = FALSE
    /\ m_lastPanPos = <<0, 0>>
    /\ cursor = <<0, 0>>
    /\ emitted = <<>>
    /\ lastOp = [name |-> "MapWidget"]
    /\ nPans = 0
    /\ \/ \E z \in ZoomProbes, d \in ZoomSteps :
             probe = [kind |-> "zoom", z1 |-> z, z2 |-> z + d]
       \/ \E r \in RangeProbes : probe = [kind |-> "range", r |-> r]

\* zoomToRangeScale at two zooms, and rangeScaleToZoom of the first result
applyZoomToRangeScale ==
    /\ probe.kind = "zoom"
    /\ probe' = [kind |-> "zoomToRangeScale", z1 |-> probe.z1, z2 |-> probe.z2,
                 r1 |-> zoomToRangeScale(probe.z1), r2 |-> zoomToRangeScale(probe.z2),
                 back |-> rangeScaleToZoom(zoomToRangeScale(probe.z1))]
    /\ UNCHANGED <<view, tracks, gesture, cursor, emitted, lastOp, nPans>>

\* rangeScaleToZoom at a range, and zoomToRangeScale of the result
applyRangeScaleToZoom ==
    /\ probe.kind = "range"
    /\ probe' = [kind |-> "rangeScaleToZoom", r |-> probe.r,
                 z |-> rangeScaleToZoom(probe.r),
                 back |-> zoomToRangeScale(rangeScaleToZoom(probe.r))]
    /\ UNCHANGED <<view, tracks, gesture, cursor, emitted, lastOp, nPans>>

NextConv == applyZoomToRangeScale \/ applyRangeScaleToZoom

SpecConv == InitConv /\ [][NextConv]_vars

\* ------------------------------------------------------------- properties
ZoomInDomain(z) == 1 * ZoomUnit <= z /\ z <= 20 * ZoomUnit
RangeInDomain(r) == 100 * MetreUnit <= r /\ r <= 50000 * MetreUnit
Saturate(z) == IF z < 1 * ZoomUnit THEN 1 * ZoomUnit
               ELSE IF z > 20 * ZoomUnit THEN 20 * ZoomUnit ELSE z
Emits(sig) == \E i \in 1..Len(emitted) : emitted[i].sig = sig
PointerEvents == {"mousePressEvent", "mouseMoveEvent", "mouseReleaseEvent"}

\* C1: in every reachable state the stored ground range is zoomToRangeScale
\* of the stored zoom.
C1_RangeFollowsZoom == m_viewRangeM = zoomToRangeScale(m_zoom)

C1_Witness ==
    /\ lastOp.name = "setZoomSilent"
    /\ m_zoom = 1 * ZoomUnit
    /\ m_viewRangeM = 50000 * MetreUnit

\* C2: the stored zoom always lies in [1, 20]; setZoom, setZoomSilent and a
\* wheel event store the requested zoom saturated at the nearer bound, and a
\* request inside the domain unchanged.
C2_ZoomSaturates ==
    /\ ZoomInDomain(m_zoom)
    /\ lastOp.name \in {"setZoom", "setZoomSilent"} => m_zoom = Saturate(lastOp.zoom)
    /\ lastOp.name = "wheelEvent" =>
           m_zoom = Saturate(lastOp.was + (lastOp.angleDeltaY * ZoomUnit) \div 240)

C2_Witness ==
    /\ lastOp.name = "setZoom"
    /\ lastOp.zoom = 25 * ZoomUnit
    /\ m_zoom = 20 * ZoomUnit

\* C3: removeTrack(t) clears the selection when t is the selected id and
\* leaves it unchanged otherwise, and t is not in the registry afterwards.
C3_RemoveTrack ==
    [][lastOp'.name = "removeTrack" =>
          /\ m_selectedTrackId' = IF m_selectedTrackId = lastOp'.trackId
                                  THEN "" ELSE m_selectedTrackId
          /\ lastOp'.trackId \notin m_tracks']_vars

C3_Witness ==
    /\ lastOp.name = "removeTrack"
    /\ lastOp.was = lastOp.trackId
    /\ m_selectedTrackId = ""

\* C4: the silent setters leave the state their loud twins leave and emit
\* nothing; setCenter and pan emit centerChanged with the new center, setZoom
\* emits zoomChanged with the saturated zoom, and nothing else emits either.
C4_Notifications ==
    /\ lastOp.name = "setCenter" =>
           m_center = lastOp.pos /\ emitted = <<centerChanged(lastOp.pos)>>
    /\ lastOp.name = "setCenterSilent" =>
           m_center = lastOp.pos /\ emitted = <<>>
    /\ lastOp.name = "setZoom" =>
           /\ m_zoom = Saturate(lastOp.zoom)
           /\ m_viewRangeM = zoomToRangeScale(Saturate(lastOp.zoom))
           /\ emitted = <<zoomChanged(Saturate(lastOp.zoom))>>
    /\ lastOp.name = "setZoomSilent" =>
           /\ m_zoom = Saturate(lastOp.zoom)
           /\ m_viewRangeM = zoomToRangeScale(Saturate(lastOp.zoom))
           /\ emitted = <<>>
    /\ lastOp.name = "pan" => emitted = <<centerChanged(m_center)>>
    /\ Emits("centerChanged") => lastOp.name \in {"setCenter", "pan", "mouseMoveEvent"}
    /\ Emits("zoomChanged") => lastOp.name \in {"setZoom", "wheelEvent"}

C4_Witness ==
    /\ lastOp.name = "setCenterSilent"
    /\ m_center \in Positions
    /\ emitted = <<>>

\* the pointer delta of a move event
MoveDelta(op) == <<op.pos[1] - op.from[1], op.pos[2] - op.from[2]>>

\* what C5 says of release, of move and of everything else
C5_Rest ==
    /\ (lastOp'.name = "mouseReleaseEvent" /\ lastOp'.button = "Left") => ~m_panning'
    /\ (lastOp'.name = "mouseReleaseEvent" /\ lastOp'.button # "Left") =>
           m_panning' = m_panning
    /\ (lastOp'.name = "mousePressEvent" /\ lastOp'.button # "Left") =>
           m_panning' = m_panning
    /\ lastOp'.name \notin {"mousePressEvent", "mouseReleaseEvent"} =>
           m_panning' = m_panning
    /\ (lastOp'.name = "mouseMoveEvent" /\ m_panning) =>
           /\ m_center' = PanCenter(m_center, m_viewRangeM, MoveDelta(lastOp'))
           /\ emitted' = <<centerChanged(m_center')>>
    /\ (lastOp'.name = "mouseMoveEvent" /\ ~m_panning) => m_center' = m_center

C6_MutualInverses ==
    /\ (probe.kind = "zoomToRangeScale" /\ ZoomInDomain(probe.z1)) =>
           Abs(probe.back - probe.z1) <= ZoomUnit \div 1000
    /\ (probe.kind = "rangeScaleToZoom" /\ RangeInDomain(probe.r)) =>
           Abs(probe.back - probe.r) <= probe.r \div 1000

\* C7: zoomToRangeScale is strictly decreasing over [1, 20], and its result
\* lies in [100, 50000] metres for any zoom.
C7_Monotone ==
    probe.kind = "zoomToRangeScale" =>
        /\ RangeInDomain(probe.r1) /\ RangeInDomain(probe.r2)
        /\ (ZoomInDomain(probe.z1) /\ ZoomInDomain(probe.z2) /\ probe.z1 < probe.z2) =>
               probe.r1 > probe.r2

C7_Witness ==
    /\ probe.kind = "zoomToRangeScale"
    /\ probe.z1 = 19750 /\ probe.z2 = 19751
    /\ probe.r1 > probe.r2

\* the delta of the pan a step made
PannedBy(op) == IF op.name = "pan" THEN op.delta ELSE MoveDelta(op)
PanTolerance == PixelUnit \div 20

\* C8: after pan(d) the point that was at the widget's center is drawn by
\* geoToScreen at the center pixel plus d (to a twentieth of a pixel).
C8_PanSymmetry ==
    [][(lastOp'.name = "pan" \/ (lastOp'.name = "mouseMoveEvent" /\ m_panning)) =>
          LET at == geoToScreen(m_center, m_center', m_viewRangeM')
              d == PannedBy(lastOp')
          IN /\ Abs(at[1] - ((Width * PixelUnit) \div 2 + d[1] * PixelUnit)) <= PanTolerance
             /\ Abs(at[2] - ((Height * PixelUnit) \div 2 + d[2] * PixelUnit)) <= PanTolerance]_vars

\* C9: the center is always a valid geographic position.
C9_CenterValid == ValidGeo(m_center)

\* C10: while panning is disabled no pointer event changes the center or
\* emits centerChanged.
C10_DisabledPanIsInert ==
    [][(lastOp'.name \in PointerEvents /\ ~m_panEnabled) =>
          m_center' = m_center /\ ~Emits("centerChanged")']_vars
====
